---- MODULE Spec2Model ----
(***************************************************************************)
(* lMDQupdate: fetch signed SAML metadata feeds, validate them, split them  *)
(* into per-entity MDQ files inside a fresh timestamped folder, and move    *)
(* the "live" symlink to that folder.                                       *)
(*                                                                          *)
(* The file system is modelled as                                           *)
(*   dirs : the data folders below basefolder, keyed by the unix timestamp  *)
(*          of their name; each maps sub directory name -> file name ->     *)
(*          content;                                                        *)
(*   link : the target of basefolder/symlinkfolder (NoLink when absent).    *)
(* basefolder is taken to be an absolute, symlink-free path and feed names  *)
(* to be single path segments, so a folder name and the result of           *)
(* filepath.EvalSymlinks on a link to it are the same string.               *)
(* Every system call of symlinkMetadataFolder is one step, so the states    *)
(* between two calls are visible; the calls that change the file system     *)
(* (Mkdir, Create/Write, Remove, Symlink, RemoveAll) and the HTTP fetch may *)
(* fail, the calls that only read it (EvalSymlinks, Stat) answer from the   *)
(* modelled state.                                                          *)
(***************************************************************************)
EXTENDS Integers, Sequences, FiniteSets, TLC

\* ------------------------------------------------------------------ bounds
MaxTime == 3          \* unix timestamps 1..MaxTime: at most MaxTime data folders
MaxCerts == 2         \* a document embeds 0..MaxCerts signing certificates

\* ----------------------------------------------------------- configuration
TimeStamps == 1..MaxTime
NoLink == 0           \* no symlink at basefolder/symlinkfolder
NoFolder == 0         \* the empty path "" (oldRealFolder when EvalSymlinks fails)

metadataschemapath == "ws-federation.xsd"
wrongSchema == "saml-schema-protocol-2.0.xsd"
SchemaPaths == {metadataschemapath, wrongSchema}

discoSubdir == "discofeed"
discoFileName == <<"wayf-interfed.discofeed.jsgz">>

Feed(n, u, h) == [name |-> n, url |-> u, sslmodulushash |-> h]

\* The feed lists initConfig can leave in `feeds`: one feed, two feeds, two
\* feeds with the same name, a feed named like the discovery sub directory.
FeedConfigs ==
    { <<Feed("hubpub", "u1", "fp1")>>,
      <<Feed("hubpub", "u1", "fp1"), Feed("hubpub2", "u2", "fp2")>>,
      <<Feed("hubpub", "u1", "fp1"), Feed("hubpub", "u2", "fp2")>>,
      <<Feed("hubpub", "u1", "fp1"), Feed("discofeed", "u2", "fp1")>> }

\* ------------------------------------------------------------- documents
Keys == {"k1", "k2"}
Garbage == "garbage"                 \* certificate text that is no certificate
Fingerprints == {"fp1", "fp2", "fp3"}

\* An entity of an aggregate: its entityID and its HTTP-Redirect SSO locations
Entity(id, locs) == [entityID |-> id, locations |-> locs]
E1 == Entity("urn:x", <<"https://sso/1">>)
E2 == Entity("urn:y", <<"https://sso/1">>)
E3 == Entity("urn:z", <<>>)
EntityLists == { <<E1>>, <<E1, E2>>, <<E3, E1>> }

\* The bytes fetchData can return, described by what gosaml finds in them.
\*   form      "truncated" (not XML), "invalid" (XML that violates the
\*             metadata schema) or "metadata"
\*   ncert     number of X509Certificate nodes in the root signature
\*   cert      content of the first of them
\*   signer    key that made the signature value
\*   tampered  content changed after signing (digest no longer matches)
Docs ==
    [ form : {"truncated", "invalid", "metadata"},
      ncert : 0..MaxCerts,
      cert : Keys \cup {Garbage},
      signer : Keys,
      tampered : BOOLEAN,
      entities : EntityLists ]

\* The bodies a feed URL serves: garbage, a document that violates the
\* schema, and signed aggregates (by either key, intact or tampered with).
FeedBodies ==
    { d \in Docs :
        /\ d.entities = <<E1>>
        /\ d.ncert = 1
        /\ d.signer = d.cert
        /\ d.cert \in Keys
        /\ (d.form # "metadata" => d.cert = "k1" /\ ~d.tampered) }

\* ----------------------------------------------------------------- errors
Err(m, c, s, k, h) == [msg |-> m, code |-> c, sig |-> s, keyname |-> k, hash |-> h]
nil == Err("", 0, "", "", "")

\* ------------------------------------------------------- validateMetadata
\* dom.SchemaValidate: -1 for bytes that are no XML document, 1845 for a
\* document the schema has no declaration for, nil otherwise.
SchemaValidate(metadata, MetadataSchemaPath) ==
    IF metadata.form = "truncated"
    THEN Err("Document validation error", -1, "", "", "")
    ELSE IF metadata.form = "invalid" \/ MetadataSchemaPath # metadataschemapath
    THEN Err("Document validation error", 1845, "", "", "")
    ELSE nil

\* gosaml.PublicKeyInfo: the key of a certificate and the hex SHA-1 of its
\* modulus; an error for text that is no certificate.
FingerprintOf(key) == IF key = "k1" THEN "fp1" ELSE "fp2"

PublicKeyInfo(cert) ==
    IF cert \in Keys
    THEN [keyname |-> FingerprintOf(cert), key |-> cert, err |-> nil]
    ELSE [keyname |-> "", key |-> "", err |-> Err("PublicKeyInfo failed", 0, "", "", "")]

\* dom.VerifySignature: digest of the signed content first, signature value next
VerifySignature(metadata, key) ==
    IF metadata.tampered THEN "digest mismatch"
    ELSE IF metadata.signer # key THEN "crypto/rsa: verification error"
    ELSE "nil"

validateMetadataNoFingerprint(metadata, MetadataSchemaPath, SSLmodulusHash) ==
    LET serr == SchemaValidate(metadata, MetadataSchemaPath)
        pki == PublicKeyInfo(metadata.cert)
        ok == VerifySignature(metadata, pki.key)
    IN  IF serr # nil THEN serr
        ELSE IF metadata.ncert # 1 THEN Err("Metadata not signed", 0, "", "", "")
        ELSE IF pki.err # nil THEN pki.err
        ELSE IF ok # "nil"
        THEN Err("Signature check failed", 0, ok, pki.keyname, SSLmodulusHash)
        ELSE nil

validateMetadataSignatureFirst(metadata, MetadataSchemaPath, SSLmodulusHash) ==
    LET serr == SchemaValidate(metadata, MetadataSchemaPath)
        pki == PublicKeyInfo(metadata.cert)
        ok == VerifySignature(metadata, pki.key)
    IN  IF serr # nil THEN serr
        ELSE IF pki.err # nil THEN pki.err
        ELSE IF ok # "nil" \/ pki.keyname # SSLmodulusHash
        THEN Err("Signature check failed", 0, ok, pki.keyname, SSLmodulusHash)
        ELSE IF metadata.ncert # 1 THEN Err("Metadata not signed", 0, "", "", "")
        ELSE nil

validateMetadata(metadata, MetadataSchemaPath, SSLmodulusHash) ==
    LET serr == SchemaValidate(metadata, MetadataSchemaPath)
        pki == PublicKeyInfo(metadata.cert)
        ok == VerifySignature(metadata, pki.key)
    IN  IF serr # nil THEN serr
        ELSE IF metadata.ncert # 1 THEN Err("Metadata not signed", 0, "", "", "")
        ELSE IF pki.err # nil THEN pki.err
        ELSE IF ok # "nil" \/ pki.keyname # SSLmodulusHash
        THEN Err("Signature check failed", 0, ok, pki.keyname, SSLmodulusHash)
        ELSE nil

\* --------------------------------------------------------- createMDQFiles
Put(f, k, v) == [x \in DOMAIN f \cup {k} |-> IF x = k THEN v ELSE f[x]]
Del(f, k) == [x \in DOMAIN f \ {k} |-> f[x]]
Restrict(f, K) == [x \in K |-> f[x]]
EmptyMap == [x \in {} |-> x]

\* hex.EncodeToString(gosaml.Hash(crypto.SHA1, s)): the digest of s, a value
\* that is not s and is the same for equal strings whatever they are used for
HexSHA1(s) == <<"sha1", s>>

\* the name createEntityFile opens inside dirpath
EntityFileName(filename) == <<"{sha1}", filename>>

\* gosaml.NewXpFromNode(entity).X2s(): the entity's subtree as a document
X2s(entity) ==
    [xml |-> "EntityDescriptor", entityID |-> entity.entityID,
     locations |-> entity.locations]
TruncatedFile == [xml |-> "", entityID |-> "", locations |-> <<>>]
DiscoFile == [xml |-> "discofeed", entityID |-> "", locations |-> <<>>]

createEntityFileKeepFirst(files, entityMetadata, filename, outcome) ==
    IF EntityFileName(filename) \in DOMAIN files THEN files
    ELSE IF outcome = "ok" THEN Put(files, EntityFileName(filename), entityMetadata)
    ELSE IF outcome = "write" THEN Put(files, EntityFileName(filename), TruncatedFile)
    ELSE files

\* os.Create + Write of one file: "ok"; "create" fails and leaves the
\* directory as it was; "write" fails after Create has truncated the file.
WriteOutcomes == {"ok", "create", "write"}
createEntityFile(files, entityMetadata, filename, outcome) ==
    IF outcome = "ok" THEN Put(files, EntityFileName(filename), entityMetadata)
    ELSE IF outcome = "write" THEN Put(files, EntityFileName(filename), TruncatedFile)
    ELSE files

\* the createEntityFile calls of one entity: the entityID first, then each
\* indexed location
EntityWrites(entity) ==
    <<[filename |-> HexSHA1(entity.entityID), data |-> X2s(entity)]>> \o
    [j \in 1..Len(entity.locations) |->
        [filename |-> HexSHA1(entity.locations[j]), data |-> X2s(entity)]]

RECURSIVE Writes(_)
Writes(entities) ==
    IF entities = <<>> THEN <<>>
    ELSE EntityWrites(Head(entities)) \o Writes(Tail(entities))

RECURSIVE ApplyWrites(_, _, _)
ApplyWrites(files, ws, n) ==
    IF n = 0 THEN files
    ELSE LET before == ApplyWrites(files, ws, n - 1)
         IN  createEntityFile(before, ws[n].data, ws[n].filename, "ok")

\* The loop of createMDQFiles over the entities of a document, in a feed
\* directory that Mkdir has just created.  failAt = 0: every write succeeds;
\* failAt = k: write k fails the way failKind says and the loop returns.
createMDQFiles(entities, failAt, failKind) ==
    LET ws == Writes(entities)
    IN  IF failAt = 0
        THEN [files |-> ApplyWrites(EmptyMap, ws, Len(ws)), err |-> nil]
        ELSE [files |-> createEntityFile(ApplyWrites(EmptyMap, ws, failAt - 1),
                                         ws[failAt].data, ws[failAt].filename, failKind),
              err |-> Err("createEntityFile failed", 0, "", "", "")]

\* ------------------------------------------------------------------ state
VARIABLES
    feeds,          \* the feed list initConfig built
    config,         \* config["metadataurl"], a sequence of characters; <<>> in
                    \* the specifications that start from a feed list already built
    now,            \* time.Now().Unix()
    link,           \* target of basefolder/symlinkfolder, NoLink when absent
    dirs,           \* data folders: timestamp -> sub directory -> file -> content
    pc,             \* the statement the process is at, "idle" when none runs
    caller,         \* who called symlinkMetadataFolder: "main" or "direct"
    folderName,     \* main: the folder createDateTimeFolder made
    idx,            \* main: position of the feed loop
    body,           \* main: the bytes fetchData returned
    newRealFolder,  \* symlinkMetadataFolder: its second parameter
    oldRealFolder,  \* symlinkMetadataFolder: result of EvalSymlinks
    err,            \* the error value last assigned
    exit,           \* how the last process ended: "ok", "fatal", "crash", "returned"
    failStage,      \* the statement that ended it
    trace,          \* the feed steps of this run that succeeded, in order
    preLink,        \* link when the run (or call) started
    linkSet,        \* os.Symlink has succeeded at least once
    test,           \* the schema path and fingerprint a test passes to validateMetadata
    repeat          \* a direct call repeats the previous call, which returned nil

vars == <<feeds, config, now, link, dirs, pc, caller, folderName, idx, body,
          newRealFolder, oldRealFolder, err, exit, failStage, trace,
          preLink, linkSet, test, repeat>>

NoDoc == [form |-> "none", ncert |-> 0, cert |-> Garbage, signer |-> "k1",
          tampered |-> FALSE, entities |-> <<>>]

fsVars == <<link, dirs, linkSet>>
mainVars == <<folderName, idx, body, trace>>
symVars == <<caller, newRealFolder, oldRealFolder>>
preVars == <<preLink>>

Init ==
    /\ feeds \in FeedConfigs
    /\ config = <<>>
    /\ now = 1
    /\ link = NoLink
    /\ dirs = EmptyMap
    /\ pc = "idle"
    /\ caller = "main"
    /\ folderName = NoFolder
    /\ idx = 1
    /\ body = NoDoc
    /\ newRealFolder = NoFolder
    /\ oldRealFolder = NoFolder
    /\ err = nil
    /\ exit = "none"
    /\ failStage = ""
    /\ trace = <<>>
    /\ preLink = NoLink
    /\ linkSet = FALSE
    /\ test = [schemaPath |-> metadataschemapath, SSLmodulusHash |-> "fp1"]
    /\ repeat = FALSE

\* log.Fatalf("ERROR: %s", e) at statement `stage`: exit status 1
Fatal(stage, e) ==
    /\ pc' = "idle"
    /\ exit' = "fatal"
    /\ failStage' = stage
    /\ err' = e

\* the clock moves on between runs (it is read once, at the start of a run)
Tick ==
    /\ pc = "idle"
    /\ now < MaxTime
    /\ now' = now + 1
    /\ UNCHANGED <<feeds, config, test, repeat, link, dirs, pc, caller, folderName, idx, body,
                   newRealFolder, oldRealFolder, err, exit, failStage, trace,
                   preLink, linkSet>>

MainCreateFolderLinkFirst ==
    /\ pc = "idle"
    /\ now \notin DOMAIN dirs
    /\ dirs' = Put(dirs, now, EmptyMap)
    /\ link' = now
    /\ linkSet' = TRUE
    /\ folderName' = now
    /\ idx' = 1
    /\ body' = NoDoc
    /\ trace' = <<>>
    /\ preLink' = link
    /\ pc' = "fetch"
    /\ caller' = "main"
    /\ exit' = "running"
    /\ failStage' = ""
    /\ err' = nil
    /\ newRealFolder' = NoFolder
    /\ oldRealFolder' = NoFolder
    /\ UNCHANGED <<feeds, config, test, repeat, now>>

\* main: initConfig, createDateTimeFolder succeeds
MainCreateFolder ==
    /\ pc = "idle"
    /\ now \notin DOMAIN dirs
    /\ dirs' = Put(dirs, now, EmptyMap)
    /\ folderName' = now
    /\ idx' = 1
    /\ body' = NoDoc
    /\ trace' = <<>>
    /\ preLink' = link
    /\ pc' = "fetch"
    /\ caller' = "main"
    /\ exit' = "running"
    /\ failStage' = ""
    /\ err' = nil
    /\ newRealFolder' = NoFolder
    /\ oldRealFolder' = NoFolder
    /\ UNCHANGED <<feeds, config, test, repeat, now, link, linkSet>>

\* main: os.Mkdir of the data folder fails (it exists, or the OS refuses)
MainCreateFolderFail ==
    /\ pc = "idle"
    /\ folderName' = NoFolder
    /\ idx' = 1
    /\ body' = NoDoc
    /\ trace' = <<>>
    /\ preLink' = link
    /\ caller' = "main"
    /\ Fatal("createDateTimeFolder", Err("Create new datafolder failed", 0, "", "", ""))
    /\ UNCHANGED <<feeds, config, test, repeat, now, link, dirs, linkSet, newRealFolder, oldRealFolder>>

\* main: fetchData(feed.url) returns a body
FetchFeed ==
    /\ pc = "fetch"
    /\ \E d \in FeedBodies : body' = d
    /\ trace' = Append(trace, <<idx, "fetch">>)
    /\ pc' = "validate"
    /\ UNCHANGED <<feeds, config, test, repeat, now, fsVars, symVars, preVars, folderName, idx,
                   err, exit, failStage>>

\* main: fetchData(feed.url) returns an error (transport, status code, read)
FetchFeedFail ==
    /\ pc = "fetch"
    /\ Fatal("fetchData", Err("fetch failed", 0, "", "", ""))
    /\ UNCHANGED <<feeds, config, test, repeat, now, fsVars, symVars, preVars, mainVars>>

\* main: client.Get(feed.url) never returns: the http.Client has no Timeout
\* and the Transport no dial or response timeout (lines 167-174), and the
\* server accepts the request and stays silent
FetchFeedHang ==
    /\ pc = "fetch"
    /\ pc' = "fetch_blocked"
    /\ UNCHANGED <<feeds, config, test, repeat, now, fsVars, symVars, preVars, mainVars,
                   err, exit, failStage>>

\* main: validateMetadata accepts the body
ValidateFeed ==
    /\ pc = "validate"
    /\ validateMetadata(body, metadataschemapath, feeds[idx].sslmodulushash) = nil
    /\ trace' = Append(trace, <<idx, "validate">>)
    /\ pc' = "index"
    /\ UNCHANGED <<feeds, config, test, repeat, now, fsVars, symVars, preVars, folderName, idx, body,
                   err, exit, failStage>>

ValidateFeedFailContinue ==
    /\ pc = "validate"
    /\ validateMetadata(body, metadataschemapath, feeds[idx].sslmodulushash) # nil
    /\ pc' = "index"
    /\ UNCHANGED <<feeds, config, test, repeat, now, fsVars, symVars, preVars, mainVars,
                   err, exit, failStage>>

\* main: validateMetadata rejects the body
ValidateFeedFail ==
    /\ pc = "validate"
    /\ validateMetadata(body, metadataschemapath, feeds[idx].sslmodulushash) # nil
    /\ Fatal("validateMetadata",
             validateMetadata(body, metadataschemapath, feeds[idx].sslmodulushash))
    /\ UNCHANGED <<feeds, config, test, repeat, now, fsVars, symVars, preVars, mainVars>>

\* metadataPath of createMDQFiles and dataPath of createDiscoServiceFile:
\* the data folder the sub directory is made in
DataFolder(baseFolder) == baseFolder

IndexFeedMkdirAll ==
    /\ pc = "index"
    /\ LET f == DataFolder(folderName)
           name == feeds[idx].name
           r == createMDQFiles(body.entities, 0, "ok")
           old == IF name \in DOMAIN dirs[f] THEN dirs[f][name] ELSE EmptyMap
           merged == [n \in DOMAIN old \cup DOMAIN r.files |->
                        IF n \in DOMAIN r.files THEN r.files[n] ELSE old[n]]
       IN  dirs' = Put(dirs, f, Put(dirs[f], name, merged))
    /\ trace' = Append(trace, <<idx, "index">>)
    /\ body' = NoDoc
    /\ IF idx < Len(feeds)
       THEN idx' = idx + 1 /\ pc' = "fetch"
       ELSE idx' = idx /\ pc' = "discofetch"
    /\ UNCHANGED <<feeds, config, test, repeat, now, link, linkSet, symVars, preVars, folderName,
                   err, exit, failStage>>

\* main: createMDQFiles makes the feed's sub directory and writes every file
IndexFeed ==
    /\ pc = "index"
    /\ LET f == DataFolder(folderName)
           name == feeds[idx].name
           r == createMDQFiles(body.entities, 0, "ok")
       IN  /\ name \notin DOMAIN dirs[f]
           /\ dirs' = Put(dirs, f, Put(dirs[f], name, r.files))
    /\ trace' = Append(trace, <<idx, "index">>)
    /\ body' = NoDoc
    /\ IF idx < Len(feeds)
       THEN idx' = idx + 1 /\ pc' = "fetch"
       ELSE idx' = idx /\ pc' = "discofetch"
    /\ UNCHANGED <<feeds, config, test, repeat, now, link, linkSet, symVars, preVars, folderName,
                   err, exit, failStage>>

\* main: createMDQFiles cannot make the sub directory (it exists, or the OS
\* refuses) and calls log.Fatalf itself
IndexFeedMkdirFail ==
    /\ pc = "index"
    /\ Fatal("createMDQFiles.Mkdir", Err("subdir", 0, "", "", ""))
    /\ UNCHANGED <<feeds, config, test, repeat, now, fsVars, symVars, preVars, mainVars>>

\* main: createMDQFiles makes the sub directory, a createEntityFile fails
IndexFeedWriteFail ==
    /\ pc = "index"
    /\ LET f == DataFolder(folderName)
           name == feeds[idx].name
       IN  /\ name \notin DOMAIN dirs[f]
           /\ \E k \in 1..Len(Writes(body.entities)), kind \in {"create", "write"} :
                LET r == createMDQFiles(body.entities, k, kind)
                IN  /\ dirs' = Put(dirs, f, Put(dirs[f], name, r.files))
                    /\ Fatal("createMDQFiles", r.err)
    /\ UNCHANGED <<feeds, config, test, repeat, now, link, linkSet, symVars, preVars, mainVars>>

\* main: fetchData(config["discoveryurl"]) returns the discovery feed
FetchDisco ==
    /\ pc = "discofetch"
    /\ pc' = "discowrite"
    /\ UNCHANGED <<feeds, config, test, repeat, now, fsVars, symVars, preVars, mainVars, err, exit, failStage>>

FetchDiscoFailContinue ==
    /\ pc = "discofetch"
    /\ newRealFolder' = folderName
    /\ oldRealFolder' = NoFolder
    /\ caller' = "main"
    /\ pc' = "sym_eval"
    /\ UNCHANGED <<feeds, config, test, repeat, now, fsVars, preVars, mainVars, err, exit,
                   failStage>>

\* main: fetchData(config["discoveryurl"]) fails, log.Fatalf
FetchDiscoFail ==
    /\ pc = "discofetch"
    /\ Fatal("fetchData.disco", Err("fetch failed", 0, "", "", ""))
    /\ UNCHANGED <<feeds, config, test, repeat, now, fsVars, symVars, preVars, mainVars>>

\* main: client.Get(config["discoveryurl"]) never returns
FetchDiscoHang ==
    /\ pc = "discofetch"
    /\ pc' = "discofetch_blocked"
    /\ UNCHANGED <<feeds, config, test, repeat, now, fsVars, symVars, preVars, mainVars,
                   err, exit, failStage>>

\* main: createDiscoServiceFile writes the file; main then calls
\* symlinkMetadataFolder(basefolder/symlinkfolder, folderName)
WriteDisco ==
    /\ pc = "discowrite"
    /\ LET f == DataFolder(folderName)
       IN  /\ discoSubdir \notin DOMAIN dirs[f]
           /\ dirs' = Put(dirs, f, Put(dirs[f], discoSubdir,
                                        Put(EmptyMap, discoFileName, DiscoFile)))
    /\ newRealFolder' = folderName
    /\ oldRealFolder' = NoFolder
    /\ caller' = "main"
    /\ pc' = "sym_eval"
    /\ UNCHANGED <<feeds, config, test, repeat, now, link, linkSet, preVars, mainVars, err, exit, failStage>>

\* createDiscoServiceFile: Mkdir fails (log.Fatalf inside the function)
WriteDiscoMkdirFail ==
    /\ pc = "discowrite"
    /\ Fatal("createDiscoServiceFile.Mkdir", Err("subdir", 0, "", "", ""))
    /\ UNCHANGED <<feeds, config, test, repeat, now, fsVars, symVars, preVars, mainVars>>

\* createDiscoServiceFile: Create or Write fails, main calls log.Fatalf
WriteDiscoFail ==
    /\ pc = "discowrite"
    /\ LET f == DataFolder(folderName)
       IN  /\ discoSubdir \notin DOMAIN dirs[f]
           /\ \E kind \in {"create", "write"} :
                dirs' = Put(dirs, f, Put(dirs[f], discoSubdir,
                            IF kind = "write"
                            THEN Put(EmptyMap, discoFileName, TruncatedFile)
                            ELSE EmptyMap))
    /\ Fatal("createDiscoServiceFile", Err("write failed", 0, "", "", ""))
    /\ UNCHANGED <<feeds, config, test, repeat, now, link, linkSet, symVars, preVars, mainVars>>

\* -------------------------------------------------- symlinkMetadataFolder
\* filepath.EvalSymlinks and os.Stat both follow the link: they succeed when
\* the link exists and its target exists
Resolves == link # NoLink /\ link \in DOMAIN dirs

\* lines 112-118: EvalSymlinks, and the decision whether to create the link
SymEval ==
    /\ pc = "sym_eval"
    /\ oldRealFolder' = IF Resolves THEN link ELSE NoFolder
    /\ pc' = IF Resolves /\ link = newRealFolder THEN "sym_removeall" ELSE "sym_stat"
    /\ UNCHANGED <<feeds, config, test, repeat, now, fsVars, caller, newRealFolder, preVars, mainVars,
                   err, exit, failStage>>

\* line 121: os.Stat(symlinkFolder)
SymStat ==
    /\ pc = "sym_stat"
    /\ pc' = IF Resolves THEN "sym_remove" ELSE "sym_symlink"
    /\ UNCHANGED <<feeds, config, test, repeat, now, fsVars, symVars, preVars, mainVars, err, exit, failStage>>

\* line 122: os.Remove(symlinkFolder) removes the link
SymRemove ==
    /\ pc = "sym_remove"
    /\ link' = NoLink
    /\ pc' = "sym_symlink"
    /\ UNCHANGED <<feeds, config, test, repeat, now, dirs, linkSet, symVars, preVars, mainVars,
                   err, exit, failStage>>

\* lines 123-125: os.Remove fails, return
SymRemoveFail ==
    /\ pc = "sym_remove"
    /\ err' = Err("remove", 0, "", "", "")
    /\ pc' = "sym_return"
    /\ UNCHANGED <<feeds, config, test, repeat, now, fsVars, symVars, preVars, mainVars, exit, failStage>>

\* line 128: os.Symlink(newRealFolder, symlinkFolder) creates the link
SymSymlink ==
    /\ pc = "sym_symlink"
    /\ link = NoLink
    /\ link' = newRealFolder
    /\ linkSet' = TRUE
    /\ pc' = "sym_removeall"
    /\ UNCHANGED <<feeds, config, test, repeat, now, dirs, symVars, preVars, mainVars, err, exit, failStage>>

\* lines 129-131: os.Symlink fails (the name exists, or the OS refuses), return
SymSymlinkFail ==
    /\ pc = "sym_symlink"
    /\ err' = Err("symlink", 0, "", "", "")
    /\ pc' = "sym_return"
    /\ UNCHANGED <<feeds, config, test, repeat, now, fsVars, symVars, preVars, mainVars, exit, failStage>>

SymRemoveAllKeep ==
    /\ pc = "sym_removeall"
    /\ err' = nil
    /\ pc' = "sym_return"
    /\ UNCHANGED <<feeds, config, test, repeat, now, dirs, link, linkSet, symVars, preVars,
                   mainVars, exit, failStage>>

SymRemoveAllNew ==
    /\ pc = "sym_removeall"
    /\ dirs' = IF newRealFolder \in DOMAIN dirs THEN Del(dirs, newRealFolder) ELSE dirs
    /\ err' = nil
    /\ pc' = "sym_return"
    /\ UNCHANGED <<feeds, config, test, repeat, now, link, linkSet, symVars, preVars, mainVars,
                   exit, failStage>>

\* line 135: os.RemoveAll(oldRealFolder) removes the folder; nil for "" and
\* for a path that does not exist
SymRemoveAll ==
    /\ pc = "sym_removeall"
    /\ dirs' = IF oldRealFolder \in DOMAIN dirs THEN Del(dirs, oldRealFolder) ELSE dirs
    /\ err' = nil
    /\ pc' = "sym_return"
    /\ UNCHANGED <<feeds, config, test, repeat, now, link, linkSet, symVars, preVars, mainVars, exit, failStage>>

\* line 135: os.RemoveAll fails having removed some of the sub directories
SymRemoveAllFail ==
    /\ pc = "sym_removeall"
    /\ oldRealFolder \in DOMAIN dirs
    /\ \E K \in SUBSET DOMAIN dirs[oldRealFolder] :
          dirs' = [dirs EXCEPT ![oldRealFolder] = Restrict(@, K)]
    /\ err' = Err("removeall", 0, "", "", "")
    /\ pc' = "sym_return"
    /\ UNCHANGED <<feeds, config, test, repeat, now, link, linkSet, symVars, preVars, mainVars, exit, failStage>>

\* main lines 304-306: symlinkMetadataFolder returned an error
MainSymlinkFailed ==
    /\ pc = "sym_return"
    /\ caller = "main"
    /\ err # nil
    /\ Fatal("symlinkMetadataFolder", err)
    /\ UNCHANGED <<feeds, config, test, repeat, now, fsVars, symVars, preVars, mainVars>>

\* main line 307: "OK: lMDQ update succesfull", exit status 0
MainOK ==
    /\ pc = "sym_return"
    /\ caller = "main"
    /\ err = nil
    /\ pc' = "idle"
    /\ exit' = "ok"
    /\ failStage' = ""
    /\ UNCHANGED <<feeds, config, test, repeat, now, fsVars, symVars, preVars, mainVars, err>>

\* the process is killed at any statement
Crash ==
    /\ pc # "idle"
    /\ caller = "main"
    /\ pc' = "idle"
    /\ exit' = "crash"
    /\ failStage' = pc
    /\ UNCHANGED <<feeds, config, test, repeat, now, fsVars, symVars, preVars, mainVars, err>>

Next ==
    \/ Tick
    \/ MainCreateFolder
    \/ MainCreateFolderFail
    \/ FetchFeed
    \/ FetchFeedFail
    \/ FetchFeedHang
    \/ ValidateFeed
    \/ ValidateFeedFail
    \/ IndexFeed
    \/ IndexFeedMkdirFail
    \/ IndexFeedWriteFail
    \/ FetchDisco
    \/ FetchDiscoFail
    \/ FetchDiscoHang
    \/ WriteDisco
    \/ WriteDiscoMkdirFail
    \/ WriteDiscoFail
    \/ SymEval
    \/ SymStat
    \/ SymRemove
    \/ SymRemoveFail
    \/ SymSymlink
    \/ SymSymlinkFail
    \/ SymRemoveAll
    \/ SymRemoveAllFail
    \/ MainSymlinkFailed
    \/ MainOK
    \/ Crash

Spec == Init /\ [][Next]_vars

\* the statements of a started process; it runs on unless it is killed
RunStep ==
    \/ FetchFeed
    \/ FetchFeedFail
    \/ FetchFeedHang
    \/ ValidateFeed
    \/ ValidateFeedFail
    \/ IndexFeed
    \/ IndexFeedMkdirFail
    \/ IndexFeedWriteFail
    \/ FetchDisco
    \/ FetchDiscoFail
    \/ FetchDiscoHang
    \/ WriteDisco
    \/ WriteDiscoMkdirFail
    \/ WriteDiscoFail
    \/ SymEval
    \/ SymStat
    \/ SymRemove
    \/ SymRemoveFail
    \/ SymSymlink
    \/ SymSymlinkFail
    \/ SymRemoveAll
    \/ SymRemoveAllFail
    \/ MainSymlinkFailed
    \/ MainOK

\* a started process takes its next step whenever it has one
SpecLive == Init /\ [][Next]_vars /\ WF_vars(RunStep)

TypeOK ==
    /\ feeds \in FeedConfigs
    /\ now \in TimeStamps
    /\ link \in TimeStamps \cup {NoLink}
    /\ DOMAIN dirs \subseteq TimeStamps
    /\ folderName \in TimeStamps \cup {NoFolder}
    /\ idx \in 1..Len(feeds)

\* ------------------------------------------------ direct calls (as a test)
\* A data folder as a run that succeeded leaves it
FullFeedDir == createMDQFiles(<<E1>>, 0, "ok").files
FullDiscoDir == Put(EmptyMap, discoFileName, DiscoFile)
FullFolder(fs) ==
    [n \in {fs[i].name : i \in 1..Len(fs)} \cup {discoSubdir} |->
        IF n = discoSubdir THEN FullDiscoDir ELSE FullFeedDir]

\* feed lists with which a run can succeed
GoodConfigs ==
    { fs \in FeedConfigs :
        /\ \A i, j \in 1..Len(fs) : fs[i].name = fs[j].name => i = j
        /\ \A i \in 1..Len(fs) : fs[i].name # discoSubdir }

\* symlinkMetadataFolder called on its own: some data folders exist, the link
\* is absent, points to one of them, or points to a folder that is gone
InitPromote ==
    /\ feeds \in GoodConfigs
    /\ config = <<>>
    /\ now = 1
    /\ \E S \in SUBSET TimeStamps : dirs = [t \in S |-> FullFolder(feeds)]
    /\ link \in {NoLink} \cup TimeStamps
    /\ pc = "idle"
    /\ caller = "direct"
    /\ folderName = NoFolder
    /\ idx = 1
    /\ body = NoDoc
    /\ newRealFolder = NoFolder
    /\ oldRealFolder = NoFolder
    /\ err = nil
    /\ exit = "none"
    /\ failStage = ""
    /\ trace = <<>>
    /\ preLink = NoLink
    /\ linkSet = (link # NoLink)
    /\ test = [schemaPath |-> metadataschemapath, SSLmodulusHash |-> "fp1"]
    /\ repeat = FALSE

\* symlinkMetadataFolder(basefolder/symlinkfolder, new) for an existing folder
DirectCall ==
    /\ pc = "idle"
    /\ \E new \in DOMAIN dirs :
          /\ newRealFolder' = new
          /\ repeat' = (exit = "returned" /\ err = nil /\ new = newRealFolder)
    /\ oldRealFolder' = NoFolder
    /\ caller' = "direct"
    /\ preLink' = link
    /\ err' = nil
    /\ exit' = "running"
    /\ failStage' = ""
    /\ pc' = "sym_eval"
    /\ UNCHANGED <<feeds, config, test, now, fsVars, mainVars>>

\* the call returns err to the test
DirectReturn ==
    /\ pc = "sym_return"
    /\ caller = "direct"
    /\ pc' = "idle"
    /\ exit' = "returned"
    /\ UNCHANGED <<feeds, config, test, repeat, now, fsVars, symVars, preVars, mainVars,
                   err, failStage>>

NextPromote ==
    \/ DirectCall
    \/ SymEval
    \/ SymStat
    \/ SymRemove
    \/ SymRemoveFail
    \/ SymSymlink
    \/ SymSymlinkFail
    \/ SymRemoveAll
    \/ SymRemoveAllFail
    \/ DirectReturn

SpecPromote == InitPromote /\ [][NextPromote]_vars

\* validateMetadata called on its own, as lMDQupdate_test.go does
InitValidate ==
    /\ feeds = <<Feed("hubpub", "u1", "fp1")>>
    /\ config = <<>>
    /\ now = 1
    /\ link = NoLink
    /\ dirs = EmptyMap
    /\ pc = "test"
    /\ caller = "direct"
    /\ folderName = NoFolder
    /\ idx = 1
    /\ body \in Docs
    /\ newRealFolder = NoFolder
    /\ oldRealFolder = NoFolder
    /\ err = nil
    /\ exit = "none"
    /\ failStage = ""
    /\ trace = <<>>
    /\ preLink = NoLink
    /\ linkSet = FALSE
    /\ test \in [schemaPath : SchemaPaths, SSLmodulusHash : Fingerprints]
    /\ repeat = FALSE

TestValidateMetadata ==
    /\ pc = "test"
    /\ err' = validateMetadata(body, test.schemaPath, test.SSLmodulusHash)
    /\ pc' = "tested"
    /\ UNCHANGED <<feeds, config, test, repeat, now, fsVars, symVars, preVars, mainVars,
                   exit, failStage>>

NextValidate == TestValidateMetadata

SpecValidate == InitValidate /\ [][NextValidate]_vars

\* ------------------------------------------ createMDQFiles called directly
MaxEntities == 3      \* an aggregate holds 1..MaxEntities entities

\* entityID "" is what dom.Query1 returns for an absent or empty attribute;
\* "urn:x" is both an entityID and an SSO location
IndexIDs == {"", "urn:x", "urn:y", "urn:z"}
IndexLocations == {<<>>, <<"https://sso/1">>, <<"urn:x">>}
IndexEntities == {Entity(id, l) : id \in IndexIDs, l \in IndexLocations}
IndexLists == UNION {[1..n -> IndexEntities] : n \in 1..MaxEntities}

\* createMDQFiles(metadata, folderName, "hubpub") on an empty data folder
InitIndex ==
    /\ feeds = <<Feed("hubpub", "u1", "fp1")>>
    /\ config = <<>>
    /\ now = 1
    /\ link = NoLink
    /\ dirs = [t \in {1} |-> EmptyMap]
    /\ pc = "index_test"
    /\ caller = "direct"
    /\ folderName = 1
    /\ idx = 1
    /\ \E es \in IndexLists :
          body = [form |-> "metadata", ncert |-> 1, cert |-> "k1", signer |-> "k1",
                  tampered |-> FALSE, entities |-> es]
    /\ newRealFolder = NoFolder
    /\ oldRealFolder = NoFolder
    /\ err = nil
    /\ exit = "none"
    /\ failStage = ""
    /\ trace = <<>>
    /\ preLink = NoLink
    /\ linkSet = FALSE
    /\ test = [schemaPath |-> metadataschemapath, SSLmodulusHash |-> "fp1"]
    /\ repeat = FALSE

\* createMDQFiles returns nil: the sub directory and every file were written
TestCreateMDQFiles ==
    /\ pc = "index_test"
    /\ LET f == DataFolder(folderName)
           name == feeds[idx].name
           r == createMDQFiles(body.entities, 0, "ok")
       IN  /\ name \notin DOMAIN dirs[f]
           /\ dirs' = Put(dirs, f, Put(dirs[f], name, r.files))
           /\ err' = r.err
    /\ pc' = "indexed"
    /\ UNCHANGED <<feeds, config, test, repeat, now, link, linkSet, symVars, preVars, mainVars,
                   exit, failStage>>

\* createMDQFiles returns the error of a createEntityFile
TestCreateMDQFilesFail ==
    /\ pc = "index_test"
    /\ LET f == DataFolder(folderName)
           name == feeds[idx].name
       IN  /\ name \notin DOMAIN dirs[f]
           /\ \E k \in 1..Len(Writes(body.entities)), kind \in {"create", "write"} :
                LET r == createMDQFiles(body.entities, k, kind)
                IN  /\ dirs' = Put(dirs, f, Put(dirs[f], name, r.files))
                    /\ err' = r.err
    /\ pc' = "indexed"
    /\ UNCHANGED <<feeds, config, test, repeat, now, link, linkSet, symVars, preVars, mainVars,
                   exit, failStage>>

NextIndex ==
    \/ TestCreateMDQFiles
    \/ TestCreateMDQFilesFail

SpecIndex == InitIndex /\ [][NextIndex]_vars

\* the entityID a written fragment yields when it is parsed again
ParseEntityID(content) == content.entityID

\* the files of the feed directory createMDQFiles made
FeedFiles == dirs[folderName][feeds[1].name]

\* ------------------------------------------------------------- initConfig
MaxTuples == 2        \* config["metadataurl"] is built from 1..MaxTuples pieces

\* strings.Index(s, c c): the first position where the separator starts, 0 if none
Index(s, c) ==
    IF \E i \in 1..(Len(s) - 1) : s[i] = c /\ s[i + 1] = c
    THEN CHOOSE i \in 1..(Len(s) - 1) :
            /\ s[i] = c /\ s[i + 1] = c
            /\ \A j \in 1..(i - 1) : ~(s[j] = c /\ s[j + 1] = c)
    ELSE 0

\* strings.Split(s, c c) for the separators ";;" and "::"
RECURSIVE Split(_, _)
Split(s, c) ==
    LET i == Index(s, c)
    IN  IF i = 0 THEN <<s>>
        ELSE <<SubSeq(s, 1, i - 1)>> \o Split(SubSeq(s, i + 2, Len(s)), c)

FeedLoopSkip(tuples, acc) ==
    LET keep == SelectSeq(tuples,
                    LAMBDA t : /\ Len(Split(t, ":")) = 3
                               /\ \A k \in 1..3 : Split(t, ":")[k] # <<>>)
    IN  [fatal |-> FALSE,
         feeds |-> acc \o [i \in 1..Len(keep) |->
                             Feed(Split(keep[i], ":")[1], Split(keep[i], ":")[2],
                                  Split(keep[i], ":")[3])]]

\* lines 77-91: the loop over the tuples, appending to feeds, log.Fatalf at
\* the first tuple that has not three non-empty fields
RECURSIVE FeedLoop(_, _)
FeedLoop(tuples, acc) ==
    IF tuples = <<>> THEN [fatal |-> FALSE, feeds |-> acc]
    ELSE LET fau == Split(Head(tuples), ":")
         IN  IF Len(fau) = 3
             THEN IF fau[1] = <<>> \/ fau[2] = <<>> \/ fau[3] = <<>>
                  THEN [fatal |-> TRUE, feeds |-> acc]
                  ELSE FeedLoop(Tail(tuples), Append(acc, Feed(fau[1], fau[2], fau[3])))
             ELSE [fatal |-> TRUE, feeds |-> acc]

\* initConfig for the metadataurl entry: an empty value is fatal (lines
\* 70-74), otherwise the feed loop
initConfig(metadataurl) ==
    IF metadataurl = <<>> THEN [fatal |-> TRUE, feeds |-> <<>>]
    ELSE FeedLoop(Split(metadataurl, ";"), <<>>)

\* the pieces a metadataurl value is put together from: two well formed
\* tuples, a tuple of two fields, of four fields, with an empty name, the empty
\* piece, a tuple with three colons in a row, a tuple followed by a semicolon
ConfigTuples ==
    { <<"a", ":", ":", "u", ":", ":", "h">>,
      <<"b", ":", ":", "u", ":", ":", "h">>,
      <<"a", ":", ":", "u">>,
      <<"a", ":", ":", "u", ":", ":", "h", ":", ":", "x">>,
      <<":", ":", "u", ":", ":", "h">>,
      <<>>,
      <<"a", ":", ":", ":", "u", ":", ":", "h">>,
      <<"a", ":", ":", "u", ":", ":", "h", ";">> }

RECURSIVE JoinTuples(_)
JoinTuples(ts) ==
    IF Len(ts) = 1 THEN ts[1]
    ELSE ts[1] \o <<";", ";">> \o JoinTuples(Tail(ts))

ConfigStrings ==
    { JoinTuples(ts) : ts \in UNION {[1..n -> ConfigTuples] : n \in 1..MaxTuples} }

\* the process starts with some value of metadataurl
InitConfig ==
    /\ feeds = <<>>
    /\ config \in ConfigStrings
    /\ now = 1
    /\ link = NoLink
    /\ dirs = EmptyMap
    /\ pc = "start"
    /\ caller = "main"
    /\ folderName = NoFolder
    /\ idx = 1
    /\ body = NoDoc
    /\ newRealFolder = NoFolder
    /\ oldRealFolder = NoFolder
    /\ err = nil
    /\ exit = "none"
    /\ failStage = ""
    /\ trace = <<>>
    /\ preLink = NoLink
    /\ linkSet = FALSE
    /\ test = [schemaPath |-> metadataschemapath, SSLmodulusHash |-> "fp1"]
    /\ repeat = FALSE

\* main line 273: initConfig returns with feeds filled
MainInitConfig ==
    /\ pc = "start"
    /\ ~initConfig(config).fatal
    /\ feeds' = initConfig(config).feeds
    /\ exit' = "running"
    /\ pc' = "configured"
    /\ UNCHANGED <<config, test, repeat, now, fsVars, symVars, preVars, mainVars,
                   err, failStage>>

\* initConfig calls log.Fatalf
MainInitConfigFatal ==
    /\ pc = "start"
    /\ initConfig(config).fatal
    /\ feeds' = initConfig(config).feeds
    /\ Fatal("initConfig", Err("Wrong feed format", 0, "", "", ""))
    /\ UNCHANGED <<config, test, repeat, now, fsVars, symVars, preVars, mainVars>>

NextConfig ==
    \/ MainInitConfig
    \/ MainInitConfigFatal

SpecConfig == InitConfig /\ [][NextConfig]_vars

\* =================================================================== claims
SymPcs == {"sym_eval", "sym_stat", "sym_remove", "sym_symlink", "sym_removeall",
           "sym_return"}
FeedPcs == {"fetch", "validate", "index"}
FeedFailStages == {"fetchData", "validateMetadata", "createMDQFiles.Mkdir",
                   "createMDQFiles"}

\* a feed directory holding every file of an aggregate
FullyIndexed(files) ==
    \E es \in EntityLists : files = createMDQFiles(es, 0, "ok").files

\* data folder s exists and holds a fully written directory for every feed
Complete(s) ==
    /\ s \in DOMAIN dirs
    /\ \A i \in 1..Len(feeds) :
          /\ feeds[i].name \in DOMAIN dirs[s]
          /\ FullyIndexed(dirs[s][feeds[i].name])

\* the feed steps of a run that handled n feeds without a failure
ExpectedTrace(n) ==
    [k \in 1..(3 * n) |->
        <<((k - 1) \div 3) + 1,
          IF (k - 1) % 3 = 0 THEN "fetch"
          ELSE IF (k - 1) % 3 = 1 THEN "validate" ELSE "index">>]

\* C1: once the live symlink has been created, in every state (the states
\* between the system calls of symlinkMetadataFolder included) the symlink
\* exists and resolves to a data folder that is complete for every feed.
C1_LiveAlwaysComplete ==
    linkSet => (link # NoLink /\ Complete(link))

\* C2: symlinkMetadataFolder runs only after every configured feed, in
\* configured order, has been fetched, then validated, then indexed into the
\* new folder; a run that fails at a feed never calls it.
C2_PromoteOnlyAfterAllFeeds ==
    /\ pc \in SymPcs =>
          /\ trace = ExpectedTrace(Len(feeds))
          /\ newRealFolder = folderName
          /\ Complete(newRealFolder)
    /\ (exit = "fatal" /\ failStage \in FeedFailStages) => newRealFolder = NoFolder

C2_Witness ==
    /\ pc = "sym_eval"
    /\ Len(feeds) = 2
    /\ trace = ExpectedTrace(2)

FeedStepFrame ==
    pc \in FeedPcs =>
        /\ link' = link
        /\ \A s \in DOMAIN dirs \ {folderName} :
              s \in DOMAIN dirs' /\ dirs'[s] = dirs[s]

\* C3: a run in which a feed fails at fetch, validation or indexing ends
\* fatally with the live link as it was before the run, and no step of the
\* feed loop changes the link or any data folder other than the new one.
C3_FailingFeedFrame ==
    /\ []((exit = "fatal" /\ failStage \in FeedFailStages) =>
             (link = preLink /\ newRealFolder = NoFolder))
    /\ [][FeedStepFrame]_vars

\* feed 1 was indexed, feed 2 is validly signed by a key with another
\* fingerprint, and a live link existed before the run
C3_Witness ==
    /\ exit = "fatal"
    /\ failStage = "validateMetadata"
    /\ idx = 2
    /\ err.msg = "Signature check failed"
    /\ err.sig = "nil"
    /\ preLink # NoLink
    /\ Complete(preLink)

\* C4: after every run that ends with a failure, at any stage, the live link
\* is the one from before the run and the folder it resolved to is complete.
C4_FailingRunLeavesLive ==
    exit = "fatal" =>
        /\ link = preLink
        /\ preLink # NoLink => Complete(preLink)

RepeatedCallStep ==
    (repeat /\ pc \in SymPcs) => (link' = link /\ dirs' = dirs)

\* C5: a call of symlinkMetadataFolder that repeats the previous call (same
\* new folder, previous call returned nil) changes neither the link nor any
\* data folder and returns nil.
C5_SecondCallNoOp ==
    /\ []((repeat /\ pc = "sym_return") => err = nil)
    /\ [][RepeatedCallStep]_vars

\* C6: after a run that ends with status 0 the link resolves to the folder the
\* run created, that folder holds every feed directory and the discovery
\* directory, and the folder the link pointed to before the run is gone.
C6_SuccessfulRunPromotes ==
    exit = "ok" =>
        /\ link = folderName
        /\ Complete(folderName)
        /\ discoSubdir \in DOMAIN dirs[folderName]
        /\ preLink # NoLink => preLink \notin DOMAIN dirs

C6_Witness ==
    /\ exit = "ok"
    /\ preLink # NoLink
    /\ preLink # folderName
    /\ Len(feeds) = 2

RemoveAllKeepsNew ==
    pc = "sym_removeall" =>
        /\ newRealFolder \in DOMAIN dirs'
        /\ dirs'[newRealFolder] = dirs[newRealFolder]

\* C7: when the process is killed after os.Symlink created the new link,
\* before or during os.RemoveAll of the old folder, the link resolves to the
\* new folder, which is complete; os.RemoveAll changes nothing of the new folder.
C7_CrashAfterLink ==
    /\ []((/\ exit = "crash"
           /\ \/ failStage = "sym_removeall"
              \/ failStage = "sym_return" /\ err.msg \notin {"remove", "symlink"})
          => (link = folderName /\ Complete(folderName)))
    /\ [][RemoveAllKeepsNew]_vars

\* killed while the old folder was half removed
C7_Witness ==
    /\ exit = "crash"
    /\ failStage = "sym_return"
    /\ err.msg = "removeall"
    /\ preLink \in DOMAIN dirs
    /\ ~Complete(preLink)
    /\ link = folderName

\* C8: a failure of os.RemoveAll after the new link exists is not reported by
\* symlinkMetadataFolder and does not make the run fail.
C8_RemoveAllFailureNotFatal ==
    /\ pc = "sym_return" => err.msg # "removeall"
    /\ exit = "fatal" => err.msg # "removeall"

SchemaValid(d, path) == d.form = "metadata" /\ path = metadataschemapath
SignatureVerifies(d) == d.cert \in Keys /\ d.signer = d.cert /\ ~d.tampered
FingerprintMatches(d, hash) ==
    d.cert \in Keys /\ hash = (IF d.cert = "k1" THEN "fp1" ELSE "fp2")

\* C9: validateMetadata returns nil exactly when the document is valid for
\* the schema, embeds exactly one certificate, its signature verifies
\* against its content with that certificate's key, and the certificate's
\* fingerprint is the expected one.
C9_ValidateIff ==
    pc = "tested" =>
        (err = nil <=>
            /\ SchemaValid(body, test.schemaPath)
            /\ body.ncert = 1
            /\ SignatureVerifies(body)
            /\ FingerprintMatches(body, test.SSLmodulusHash))

\* validly signed by a key whose fingerprint is not the expected one: rejected
C9_Witness ==
    /\ pc = "tested"
    /\ SchemaValid(body, test.schemaPath)
    /\ body.ncert = 1
    /\ SignatureVerifies(body)
    /\ ~FingerprintMatches(body, test.SSLmodulusHash)
    /\ err # nil

FirstFailingCheck(d, path, hash) ==
    IF ~SchemaValid(d, path) THEN "SchemaViolation"
    ELSE IF d.ncert = 0 THEN "NotSigned"
    ELSE IF d.ncert > 1 THEN "AmbiguousSignature"
    ELSE IF ~SignatureVerifies(d) THEN "SignatureInvalid"
    ELSE IF ~FingerprintMatches(d, hash) THEN "UntrustedSigner"
    ELSE "none"

\* C10 (as stated): the checks run in the order schema, certificate count,
\* signature, fingerprint, and the error tells which check failed first:
\* two inputs whose first failing check differs (schema, no certificate,
\* several certificates, signature, fingerprint) never get the same error.
C10_DistinctFailureModes ==
    (pc = "tested" /\ body.cert \in Keys) =>
        \A d \in Docs, hash \in Fingerprints :
            (/\ d.cert \in Keys
             /\ d.entities = body.entities
             /\ validateMetadata(d, test.schemaPath, hash).msg = err.msg
             /\ validateMetadata(d, test.schemaPath, hash).sig = "nil" <=> err.sig = "nil")
            => FirstFailingCheck(d, test.schemaPath, hash)
                 = FirstFailingCheck(body, test.schemaPath, test.SSLmodulusHash)

\* C10 (amended): the steps are schema validation, certificate count, key
\* extraction, then signature verification together with the fingerprint
\* comparison; the error names the first step that fails: "Document
\* validation error", "Metadata not signed" for any count other than one,
\* the key extraction error, or "Signature check failed" carrying the
\* verification result and both fingerprints.
C10_FirstFailingStep ==
    pc = "tested" =>
        LET schemaOK == SchemaValid(body, test.schemaPath)
            oneCert == body.ncert = 1
            keyOK == body.cert \in Keys
            sigOK == SignatureVerifies(body)
            fpOK == FingerprintMatches(body, test.SSLmodulusHash)
        IN  /\ err.msg = "Document validation error" <=> ~schemaOK
            /\ err.msg = "Metadata not signed" <=> (schemaOK /\ ~oneCert)
            /\ err.msg = "PublicKeyInfo failed" <=> (schemaOK /\ oneCert /\ ~keyOK)
            /\ err.msg = "Signature check failed" <=>
                  (schemaOK /\ oneCert /\ keyOK /\ (~sigOK \/ ~fpOK))
            /\ err.msg = "Signature check failed" =>
                  /\ err.sig = "nil" <=> sigOK
                  /\ err.sig = "digest mismatch" <=> body.tampered
                  /\ err.hash = test.SSLmodulusHash
                  /\ err.keyname = test.SSLmodulusHash <=> fpOK
            /\ err.msg = "" <=> (schemaOK /\ oneCert /\ keyOK /\ sigOK /\ fpOK)

\* two certificates: the error is the one for no certificate
C10_Witness ==
    /\ pc = "tested"
    /\ SchemaValid(body, test.schemaPath)
    /\ body.ncert = 2
    /\ err.msg = "Metadata not signed"

\* C11: after createMDQFiles succeeds, for every entity with entityID x the
\* feed directory holds the file for the hex SHA-1 of x (the name carries the
\* marker "{sha1}" in front of the digest) and its content parses to an
\* entity with entityID x.
C11_PrimaryRoundTrip ==
    (pc = "indexed" /\ err = nil) =>
        \A i \in 1..Len(body.entities) :
            LET x == body.entities[i].entityID
                name == EntityFileName(HexSHA1(x))
            IN  /\ name \in DOMAIN FeedFiles
                /\ ParseEntityID(FeedFiles[name]) = x

\* the names entity e is written under, and the last entity of the
\* aggregate, in document order, that is written under a name
NamesOf(e) ==
    {EntityFileName(HexSHA1(e.entityID))} \cup
    {EntityFileName(HexSHA1(e.locations[j])) : j \in 1..Len(e.locations)}
LastWriter(es, name) ==
    CHOOSE i \in 1..Len(es) :
        /\ name \in NamesOf(es[i])
        /\ \A j \in 1..Len(es) : name \in NamesOf(es[j]) => j <= i

\* location loc is an indexed location of entity e
HasLocation(e, loc) == \E j \in 1..Len(e.locations) : e.locations[j] = loc

\* three entities with different entityIDs, two of which share location loc
ThreeWithShared(es, loc) ==
    /\ Len(es) = 3
    /\ \A i, j \in 1..3 : es[i].entityID = es[j].entityID => i = j
    /\ \E i, j \in 1..3 : i # j /\ HasLocation(es[i], loc) /\ HasLocation(es[j], loc)

\* C12 (as stated): for three entities of which two share an SSO location, the
\* directory holds the three primary files and, for each of the two sharing
\* entities, an entry for the shared location with that entity's own fragment.
C12_IndependentSecondaryCopies ==
    (pc = "indexed" /\ err = nil) =>
        \A loc \in {"https://sso/1", "urn:x"} :
            ThreeWithShared(body.entities, loc) =>
                /\ \A i \in 1..3 :
                      EntityFileName(HexSHA1(body.entities[i].entityID)) \in DOMAIN FeedFiles
                /\ \A i \in 1..3 :
                      HasLocation(body.entities[i], loc) =>
                          /\ EntityFileName(HexSHA1(loc)) \in DOMAIN FeedFiles
                          /\ FeedFiles[EntityFileName(HexSHA1(loc))] = X2s(body.entities[i])

\* C12 (amended): the directory holds the three primary files and one file for
\* the shared location, and that file is the fragment of the entity written
\* under that name last in document order.
C12_LastSharingEntityWins ==
    (pc = "indexed" /\ err = nil) =>
        \A loc \in {"https://sso/1", "urn:x"} :
            ThreeWithShared(body.entities, loc) =>
                /\ \A i \in 1..3 :
                      EntityFileName(HexSHA1(body.entities[i].entityID)) \in DOMAIN FeedFiles
                /\ EntityFileName(HexSHA1(loc)) \in DOMAIN FeedFiles
                /\ FeedFiles[EntityFileName(HexSHA1(loc))] =
                      X2s(body.entities[LastWriter(body.entities,
                                                   EntityFileName(HexSHA1(loc)))])

\* entities 1 and 2 share the location: the file holds entity 2, not entity 1
C12_Witness ==
    /\ pc = "indexed"
    /\ err = nil
    /\ ThreeWithShared(body.entities, "https://sso/1")
    /\ HasLocation(body.entities[1], "https://sso/1")
    /\ HasLocation(body.entities[2], "https://sso/1")
    /\ ~HasLocation(body.entities[3], "https://sso/1")
    /\ FeedFiles[EntityFileName(HexSHA1("https://sso/1"))] = X2s(body.entities[2])

\* C15: an entity without a (non-empty) entityID is a failure for that
\* record: createMDQFiles does not return nil for an aggregate that holds one
\* and writes no file named by the digest of the empty string.
C15_EmptyEntityIDRejected ==
    (pc = "indexed" /\ \E i \in 1..Len(body.entities) : body.entities[i].entityID = "") =>
        /\ err # nil
        /\ EntityFileName(HexSHA1("")) \notin DOMAIN FeedFiles

\* C18: after createMDQFiles succeeds, the file named by the entityID of an
\* entity (the only one with that entityID) holds that entity's fragment,
\* also when another entity has an indexed location equal to that entityID.
C18_PrimaryNotReplaced ==
    (pc = "indexed" /\ err = nil) =>
        \A i \in 1..Len(body.entities) :
            (\A j \in 1..Len(body.entities) :
                body.entities[j].entityID = body.entities[i].entityID => j = i)
            => FeedFiles[EntityFileName(HexSHA1(body.entities[i].entityID))]
                 = X2s(body.entities[i])

\* a ";;"-separated tuple that has not exactly three non-empty "::"-separated fields
Malformed(tuple) ==
    \/ Len(Split(tuple, ":")) # 3
    \/ \E k \in 1..Len(Split(tuple, ":")) : Split(tuple, ":")[k] = <<>>

\* C13: if a tuple of the feed configuration is malformed the process ends
\* with a fatal error at startup, with no data folder created and the link
\* untouched; otherwise the feed list is the tuples in configured order.
C13_ConfigParsed ==
    pc # "start" =>
        LET tuples == Split(config, ";")
        IN  IF \E i \in 1..Len(tuples) : Malformed(tuples[i])
            THEN /\ pc = "idle"
                 /\ exit = "fatal"
                 /\ failStage = "initConfig"
                 /\ dirs = EmptyMap
                 /\ link = NoLink
            ELSE /\ pc = "configured"
                 /\ Len(feeds) = Len(tuples)
                 /\ \A i \in 1..Len(tuples) :
                       /\ feeds[i].name = Split(tuples[i], ":")[1]
                       /\ feeds[i].url = Split(tuples[i], ":")[2]
                       /\ feeds[i].sslmodulushash = Split(tuples[i], ":")[3]

\* two well formed tuples, "b" configured before "a"
C13_Witness ==
    /\ pc = "configured"
    /\ Len(feeds) = 2
    /\ feeds[1].name = <<"b">>
    /\ feeds[2].name = <<"a">>

\* C14: every run terminates: a process that has started (also one whose feed
\* source or discovery URL never answers) eventually ends, promoted or
\* abandoned.
C14_RunTerminates ==
    (pc # "idle") ~> (pc = "idle")

\* the feeds of the run that were indexed (createMDQFiles returned nil)
IndexedFeeds == { trace[k][1] : k \in { j \in 1..Len(trace) : trace[j][2] = "index" } }

C17_LinkRemovedBeforeSymlink ==
    /\ pc = "sym_symlink" => link = NoLink
    /\ (pc = "sym_return" /\ err = nil /\ oldRealFolder # newRealFolder) =>
          link = newRealFolder

DiscoFailStages == {"fetchData.disco", "createDiscoServiceFile.Mkdir",
                    "createDiscoServiceFile"}

\* C19 (as stated): a run in which every feed was fetched, validated and
\* indexed goes on to symlinkMetadataFolder whatever happens to the discovery
\* file: if such a run ends with log.Fatalf, it does so in the promotion.
C19_PromotionDependsOnFeedsOnly ==
    (exit = "fatal" /\ trace = ExpectedTrace(Len(feeds))) =>
        failStage = "symlinkMetadataFolder"

\* C19 (amended): promotion needs the discovery file as well as the feeds:
\* main calls symlinkMetadataFolder only with every feed indexed and the
\* discovery file written in the new folder, and a run that fails at the
\* discovery file has indexed every feed, never called symlinkMetadataFolder
\* and left the link as it was.
C19_PromotionNeedsDiscoveryFile ==
    /\ (pc \in SymPcs /\ caller = "main") =>
          /\ trace = ExpectedTrace(Len(feeds))
          /\ folderName \in DOMAIN dirs
          /\ discoSubdir \in DOMAIN dirs[folderName]
          /\ dirs[folderName][discoSubdir] = FullDiscoDir
    /\ (exit = "fatal" /\ failStage \in DiscoFailStages) =>
          /\ trace = ExpectedTrace(Len(feeds))
          /\ newRealFolder = NoFolder
          /\ link = preLink

\* every feed of a two-feed run is indexed and the discovery fetch fails
C19_Witness ==
    /\ Len(feeds) = 2
    /\ exit = "fatal"
    /\ failStage = "fetchData.disco"
    /\ trace = ExpectedTrace(2)
    /\ newRealFolder = NoFolder

====
